---------------------------- MODULE Spec2Model ----------------------------
(***************************************************************************)
(* Model of src/src/index.ts: a Cloudflare Worker that forwards the URL    *)
(* embedded in the request path, rewrites 3xx Location headers and the     *)
(* links of HTML bodies, and answers every failure with a 500 JSON body.   *)
(*                                                                         *)
(* Text is a sequence of code points (Unicode scalar values as naturals),  *)
(* so that startsWith, includes, replace, percent-coding and the byte      *)
(* decoders are computed and not assumed.  The literal each tuple stands   *)
(* for is given in the comment at the end of its line.                     *)
(***************************************************************************)
EXTENDS Integers, Sequences, FiniteSets

(***************************************************************************)
(* String primitives of the JavaScript runtime, on code point sequences.   *)
(***************************************************************************)

\* The least element of a non-empty set of positions.
Least(ps) == CHOOSE i \in ps : \A j \in ps : i <= j

\* Position of the first code point of s at or after i that is in stops,
\* Len(s) + 1 when there is none.
FirstOf(s, i, stops) ==
  LET hits == {k \in i..Len(s) : s[k] \in stops}
  IN IF hits = {} THEN Len(s) + 1 ELSE Least(hits)

\* s.slice(i - 1): the suffix of s that starts at the 1-based position i.
SliceFrom(s, i) == SubSeq(s, i, Len(s))

\* The pattern p occurs in s at the 1-based position i.
MatchesAt(s, p, i) ==
  /\ i >= 1
  /\ i + Len(p) - 1 <= Len(s)
  /\ SubSeq(s, i, i + Len(p) - 1) = p

\* String.prototype.startsWith
StartsWith(s, p) == MatchesAt(s, p, 1)

\* String.prototype.indexOf, 1-based; 0 when p does not occur in s.
IndexOf(s, p) ==
  LET hits == {i \in 1..(Len(s) + 1) : MatchesAt(s, p, i)}
  IN IF hits = {} THEN 0 ELSE Least(hits)

\* String.prototype.includes
Includes(s, p) == IndexOf(s, p) # 0

\* String.prototype.replace with a string pattern: only the first occurrence
\* is replaced (the replacement texts used here hold no '$').
ReplaceFirst(s, p, r) ==
  LET i == IndexOf(s, p)
  IN IF i = 0 THEN s
     ELSE SubSeq(s, 1, i - 1) \o r \o SliceFrom(s, i + Len(p))

IsDigit(c) == c >= 48 /\ c <= 57
IsUpper(c) == c >= 65 /\ c <= 90
IsLower(c) == c >= 97 /\ c <= 122
IsAlpha(c) == IsUpper(c) \/ IsLower(c)
ToLowerChar(c) == IF IsUpper(c) THEN c + 32 ELSE c
ToLower(s) == [i \in 1..Len(s) |-> ToLowerChar(s[i])]

\* Value of a hexadecimal digit, -1 for any other code point.
HexVal(c) ==
  IF IsDigit(c) THEN c - 48
  ELSE IF c >= 65 /\ c <= 70 THEN c - 55
  ELSE IF c >= 97 /\ c <= 102 THEN c - 87
  ELSE -1

\* The upper-case hexadecimal digit of a value in 0..15.
HexDigit(v) == IF v < 10 THEN 48 + v ELSE 55 + v

(***************************************************************************)
(* encodeURIComponent / decodeURIComponent (ECMA-262 Encode and Decode).   *)
(***************************************************************************)

\* The characters encodeURIComponent leaves alone: A-Z a-z 0-9 - _ . ! ~ * ' ( )
IsUriUnreserved(c) ==
  \/ IsAlpha(c)
  \/ IsDigit(c)
  \/ c \in {45, 95, 46, 33, 126, 42, 39, 40, 41}

\* "%XX" for one octet.
PercentOctet(b) == <<37, HexDigit(b \div 16), HexDigit(b % 16)>>

\* The UTF-8 octets of a code point below 0x10000.
Utf8Octets(c) ==
  IF c < 128 THEN <<c>>
  ELSE IF c < 2048 THEN <<192 + (c \div 64), 128 + (c % 64)>>
  ELSE <<224 + (c \div 4096), 128 + ((c \div 64) % 64), 128 + (c % 64)>>

RECURSIVE PercentOctets(_)
PercentOctets(bs) ==
  IF bs = <<>> THEN <<>> ELSE PercentOctet(Head(bs)) \o PercentOctets(Tail(bs))

\* The first position at or after i whose code point is escaped.
FirstEscaped(s, i) ==
  LET hits == {k \in i..Len(s) : ~IsUriUnreserved(s[k])}
  IN IF hits = {} THEN Len(s) + 1 ELSE Least(hits)

RECURSIVE EncodeFrom(_, _)
EncodeFrom(s, i) ==
  LET k == FirstEscaped(s, i)
  IN SubSeq(s, i, k - 1)
     \o (IF k > Len(s) THEN <<>>
         ELSE PercentOctets(Utf8Octets(s[k])) \o EncodeFrom(s, k + 1))

encodeURIComponent(s) == EncodeFrom(s, 1)

\* The octet of the escape "%XX" at position i of s, -1 when there is none.
EscapeAt(s, i) ==
  IF /\ i + 2 <= Len(s)
     /\ s[i] = 37
     /\ HexVal(s[i + 1]) >= 0
     /\ HexVal(s[i + 2]) >= 0
  THEN 16 * HexVal(s[i + 1]) + HexVal(s[i + 2])
  ELSE -1

\* Number of octets of the UTF-8 sequence a lead octet opens, 0 for an octet
\* that cannot open one (a continuation octet, 0xF8 and above).
Utf8Length(b) ==
  IF b < 128 THEN 1
  ELSE IF b >= 192 /\ b < 224 THEN 2
  ELSE IF b >= 224 /\ b < 240 THEN 3
  ELSE IF b >= 240 /\ b < 248 THEN 4
  ELSE 0

IsContinuation(b) == b >= 128 /\ b < 192

\* The code point of a well-formed UTF-8 octet sequence, -1 otherwise
\* (overlong forms, surrogates and values above 0x10FFFF are ill-formed).
Utf8CodePoint(bs) ==
  LET n == Len(bs)
  IN IF n = 1 THEN (IF bs[1] < 128 THEN bs[1] ELSE -1)
     ELSE IF \E k \in 2..n : ~IsContinuation(bs[k]) THEN -1
     ELSE IF n = 2 THEN
       LET c == (bs[1] - 192) * 64 + (bs[2] - 128)
       IN IF c >= 128 THEN c ELSE -1
     ELSE IF n = 3 THEN
       LET c == (bs[1] - 224) * 4096 + (bs[2] - 128) * 64 + (bs[3] - 128)
       IN IF c >= 2048 /\ ~(c >= 55296 /\ c <= 57343) THEN c ELSE -1
     ELSE
       LET c == (bs[1] - 240) * 262144 + (bs[2] - 128) * 4096
                + (bs[3] - 128) * 64 + (bs[4] - 128)
       IN IF c >= 65536 /\ c <= 1114111 THEN c ELSE -1

\* decodeURIComponent from position i on: [ok |-> TRUE, val |-> text], or
\* [ok |-> FALSE] where the runtime throws URIError.
RECURSIVE DecodeFrom(_, _)
DecodeFrom(s, i) ==
  LET p == FirstOf(s, i, {37})
      plain == SubSeq(s, i, p - 1)
  IN IF p > Len(s) THEN [ok |-> TRUE, val |-> plain]
     ELSE
       LET b == EscapeAt(s, p)
           n == IF b < 0 THEN 0 ELSE Utf8Length(b)
       IN IF n = 0 THEN [ok |-> FALSE, val |-> <<>>]
          ELSE IF \E k \in 1..(n - 1) : EscapeAt(s, p + 3 * k) < 0
            THEN [ok |-> FALSE, val |-> <<>>]
          ELSE
            LET c == Utf8CodePoint([k \in 1..n |-> EscapeAt(s, p + 3 * (k - 1))])
                rest == DecodeFrom(s, p + 3 * n)
            IN IF c < 0 \/ ~rest.ok THEN [ok |-> FALSE, val |-> <<>>]
               ELSE [ok |-> TRUE, val |-> plain \o <<c>> \o rest.val]

decodeURIComponent(s) == DecodeFrom(s, 1)

(***************************************************************************)
(* new URL(s) with no base: the WHATWG basic URL parser and serializer for *)
(* the http and https schemes.  Covered: scheme and host lower-casing, the *)
(* slashes after the scheme, an empty host, the port (digits, range, the   *)
(* default port dropped), the empty path becoming "/", and the percent     *)
(* encoding of path, query and fragment.  Not covered, and absent from the *)
(* inputs below: credentials, IPv4/IPv6 and IDNA hosts, dot segments, tabs *)
(* and newlines.  A string of any other scheme is kept as an opaque URL.   *)
(***************************************************************************)

L_http == <<104, 116, 116, 112>>  \* "http"
L_https == <<104, 116, 116, 112, 115>>  \* "https"
L_httpPrefix == <<104, 116, 116, 112, 58, 47, 47>>  \* "http://"
L_httpsPrefix == <<104, 116, 116, 112, 115, 58, 47, 47>>  \* "https://"
L_slashSlash == <<47, 47>>  \* "//"

\* The failed parse: the constructor throws TypeError.
UrlFailure ==
  [ok |-> FALSE, href |-> <<>>, origin |-> <<>>, host |-> <<>>, protocol |-> <<>>,
   pathname |-> <<>>, search |-> <<>>]

\* Position of the ':' that ends the scheme, 0 when s does not start with one.
SchemeEnd(s) ==
  LET k == FirstOf(s, 1, {58})
  IN IF /\ k <= Len(s)
        /\ k > 1
        /\ IsAlpha(s[1])
        /\ \A j \in 2..(k - 1) : IsAlpha(s[j]) \/ IsDigit(s[j]) \/ s[j] \in {43, 45, 46}
     THEN k ELSE 0

\* First position at or after i that is neither '/' nor '\'.
RECURSIVE SkipSlashes(_, _)
SkipSlashes(s, i) ==
  IF i <= Len(s) /\ s[i] \in {47, 92} THEN SkipSlashes(s, i + 1) ELSE i

\* Forbidden domain code points (a host holding one fails to parse).
IsForbiddenHost(c) ==
  \/ c <= 32
  \/ c >= 127
  \/ c \in {34, 35, 37, 47, 58, 60, 62, 63, 64, 91, 92, 93, 94, 124}

\* Decimal value of a digit string (0 for the empty string).
RECURSIVE DecimalValue(_)
DecimalValue(ds) ==
  IF ds = <<>> THEN 0
  ELSE 10 * DecimalValue(SubSeq(ds, 1, Len(ds) - 1)) + (ds[Len(ds)] - 48)

\* The port without leading zeros.
RECURSIVE DecimalDigits(_)
DecimalDigits(n) ==
  IF n < 10 THEN <<48 + n>> ELSE DecimalDigits(n \div 10) \o <<48 + (n % 10)>>

\* Percent-encode the code points of s that are in an encode set: the C0
\* controls, the space, everything above '~', and the listed code points.
RECURSIVE PercentEncodeFrom(_, _, _)
PercentEncodeFrom(s, i, listed) ==
  LET hits == {k \in i..Len(s) : s[k] <= 32 \/ s[k] >= 127 \/ s[k] \in listed}
      k == IF hits = {} THEN Len(s) + 1 ELSE Least(hits)
  IN SubSeq(s, i, k - 1)
     \o (IF k > Len(s) THEN <<>>
         ELSE PercentOctets(Utf8Octets(s[k])) \o PercentEncodeFrom(s, k + 1, listed))

PercentEncodeSet(s, listed) == PercentEncodeFrom(s, 1, listed)

FragmentSet == {34, 60, 62, 96}
QuerySet == {34, 35, 60, 62, 39}
PathSet == {34, 35, 60, 62, 63, 96, 123, 125}

\* '\' is a path separator of a special URL.
BackslashToSlash(s) == [i \in 1..Len(s) |-> IF s[i] = 92 THEN 47 ELSE s[i]]

ParseSpecial(scheme, s, from) ==
  LET a == SkipSlashes(s, from)
      aEnd == FirstOf(s, a, {47, 92, 63, 35})
      authority == SubSeq(s, a, aEnd - 1)
      colon == FirstOf(authority, 1, {58})
      hostRaw == SubSeq(authority, 1, colon - 1)
      portRaw == SliceFrom(authority, colon + 1)
      portValue == DecimalValue(portRaw)
      defaultPort == IF scheme = L_http THEN 80 ELSE 443
      port == IF portRaw = <<>> \/ portValue = defaultPort
              THEN <<>> ELSE <<58>> \o DecimalDigits(portValue)
      qStart == FirstOf(s, aEnd, {63, 35})
      fStart == FirstOf(s, aEnd, {35})
      pathRaw == SubSeq(s, aEnd, qStart - 1)
      path == IF pathRaw = <<>> THEN <<47>>
              ELSE PercentEncodeSet(BackslashToSlash(pathRaw), PathSet)
      query == IF qStart <= Len(s) /\ s[qStart] = 63
               THEN <<63>> \o PercentEncodeSet(SubSeq(s, qStart + 1, fStart - 1), QuerySet)
               ELSE <<>>
      fragment == IF fStart <= Len(s)
                  THEN <<35>> \o PercentEncodeSet(SliceFrom(s, fStart + 1), FragmentSet)
                  ELSE <<>>
      host == ToLower(hostRaw)
      origin == scheme \o <<58, 47, 47>> \o host \o port
  IN IF \/ hostRaw = <<>>
        \/ \E k \in 1..Len(hostRaw) : IsForbiddenHost(hostRaw[k])
        \/ \E k \in 1..Len(portRaw) : ~IsDigit(portRaw[k])
        \/ Len(portRaw) > 5
        \/ portValue > 65535
     THEN UrlFailure
     ELSE [ok |-> TRUE,
           href |-> origin \o path \o query \o fragment,
           origin |-> origin,
           host |-> host \o port,
           protocol |-> scheme \o <<58>>,
           pathname |-> path,
           search |-> IF Len(query) > 1 THEN query ELSE <<>>]

ParseURL(s) ==
  LET k == SchemeEnd(s)
      scheme == ToLower(SubSeq(s, 1, k - 1))
  IN IF k = 0 THEN UrlFailure
     ELSE IF scheme \in {L_http, L_https} THEN ParseSpecial(scheme, s, k + 1)
     ELSE [ok |-> TRUE,
           href |-> scheme \o SliceFrom(s, k),
           origin |-> <<110, 117, 108, 108>>,  \* "null"
           host |-> <<>>,
           protocol |-> scheme \o <<58>>,
           pathname |-> SliceFrom(s, k + 1),
           search |-> <<>>]

(***************************************************************************)
(* TextDecoder: the WHATWG UTF-8 decoder (fatal: false, ignoreBOM: true,   *)
(* so a byte order mark is decoded like any other character) and the       *)
(* gb18030 decoder, which the label 'gb2312' selects.                      *)
(***************************************************************************)

\* U+FFFD REPLACEMENT CHARACTER
ReplacementChar == 65533

\* The bounds of the first continuation octet after a UTF-8 lead octet.
Utf8Lower(b) == IF b = 224 THEN 160 ELSE IF b = 240 THEN 144 ELSE 128
Utf8Upper(b) == IF b = 237 THEN 159 ELSE IF b = 244 THEN 143 ELSE 191

\* Octets a lead octet needs after it; -1 for an octet that is no lead.
Utf8Needed(b) ==
  IF b >= 194 /\ b <= 223 THEN 1
  ELSE IF b >= 224 /\ b <= 239 THEN 2
  ELSE IF b >= 240 /\ b <= 244 THEN 3
  ELSE -1

\* How many of the octets after position i continue the sequence opened there.
RECURSIVE Utf8Accepted(_, _, _, _)
Utf8Accepted(bs, i, k, needed) ==
  IF k > needed \/ i + k > Len(bs) THEN k - 1
  ELSE LET b == bs[i + k]
           lo == IF k = 1 THEN Utf8Lower(bs[i]) ELSE 128
           hi == IF k = 1 THEN Utf8Upper(bs[i]) ELSE 191
       IN IF b >= lo /\ b <= hi THEN Utf8Accepted(bs, i, k + 1, needed) ELSE k - 1

\* The first position at or after i whose octet is not ASCII.
FirstHigh(bs, i) ==
  LET hits == {k \in i..Len(bs) : bs[k] >= 128}
  IN IF hits = {} THEN Len(bs) + 1 ELSE Least(hits)

RECURSIVE Utf8DecodeFrom(_, _)
Utf8DecodeFrom(bs, i) ==
  LET h == FirstHigh(bs, i)
      ascii == SubSeq(bs, i, h - 1)
  IN IF h > Len(bs) THEN ascii
     ELSE
       LET needed == Utf8Needed(bs[h])
           got == IF needed < 0 THEN 0 ELSE Utf8Accepted(bs, h, 1, needed)
       IN IF needed < 0 \/ got < needed
          THEN ascii \o <<ReplacementChar>> \o Utf8DecodeFrom(bs, h + got + 1)
          ELSE ascii \o <<Utf8CodePoint(SubSeq(bs, h, h + needed))>>
               \o Utf8DecodeFrom(bs, h + needed + 1)

\* new TextDecoder('utf-8', { fatal: false, ignoreBOM: true }).decode(bytes)
DecodeUtf8(bs) == Utf8DecodeFrom(bs, 1)

IsGbLead(b) == b >= 129 /\ b <= 254
IsGbTrail(b) == (b >= 64 /\ b <= 126) \/ (b >= 128 /\ b <= 254)
IsGbDigit(b) == b >= 48 /\ b <= 57

\* The character of a two-byte sequence.  The real value is looked up in
\* index gb18030, which has an entry for every pointer; the model keeps the
\* two bytes, above the Unicode range, so distinct sequences stay distinct
\* and none is an ASCII character.
GbTwoByteChar(lead, trail) == 1114112 + lead * 256 + trail

\* The pointer of a four-byte sequence and whether index gb18030 ranges
\* gives it a code point.
GbPointer(b1, b2, b3, b4) ==
  (b1 - 129) * 12600 + (b2 - 48) * 1260 + (b3 - 129) * 10 + (b4 - 48)
GbPointerValid(p) == ~((p > 39419 /\ p < 189000) \/ p > 1237575)
GbFourByteChar(p) == 2228224 + p

\* The characters decoded from the non-ASCII octet at position h, and the
\* position decoding resumes at (an octet that cannot continue the sequence
\* is decoded again on its own when it is an ASCII octet or a digit).
GbStep(bs, h) ==
  IF bs[h] = 128 THEN [out |-> <<8364>>, next |-> h + 1]
  ELSE IF ~IsGbLead(bs[h]) THEN [out |-> <<ReplacementChar>>, next |-> h + 1]
  ELSE IF h + 1 > Len(bs) THEN [out |-> <<ReplacementChar>>, next |-> h + 1]
  ELSE IF IsGbDigit(bs[h + 1]) THEN
    (IF h + 2 > Len(bs) THEN [out |-> <<ReplacementChar>>, next |-> h + 2]
     ELSE IF ~IsGbLead(bs[h + 2]) THEN [out |-> <<ReplacementChar>>, next |-> h + 1]
     ELSE IF h + 3 > Len(bs) THEN [out |-> <<ReplacementChar>>, next |-> h + 3]
     ELSE IF ~IsGbDigit(bs[h + 3]) THEN [out |-> <<ReplacementChar>>, next |-> h + 1]
     ELSE LET p == GbPointer(bs[h], bs[h + 1], bs[h + 2], bs[h + 3])
          IN [out |-> <<IF GbPointerValid(p) THEN GbFourByteChar(p) ELSE ReplacementChar>>,
              next |-> h + 4])
  ELSE IF IsGbTrail(bs[h + 1])
    THEN [out |-> <<GbTwoByteChar(bs[h], bs[h + 1])>>, next |-> h + 2]
  ELSE [out |-> <<ReplacementChar>>, next |-> IF bs[h + 1] < 128 THEN h + 1 ELSE h + 2]

RECURSIVE GbDecodeFrom(_, _)
GbDecodeFrom(bs, i) ==
  LET h == FirstHigh(bs, i)
      ascii == SubSeq(bs, i, h - 1)
  IN IF h > Len(bs) THEN ascii
     ELSE ascii \o GbStep(bs, h).out \o GbDecodeFrom(bs, GbStep(bs, h).next)

\* new TextDecoder('gb2312').decode(bytes)
DecodeGb2312(bs) == GbDecodeFrom(bs, 1)

(***************************************************************************)
(* The two link rewrites of the HTML body.                                 *)
(***************************************************************************)

L_href == <<104, 114, 101, 102>>  \* "href"
L_src == <<115, 114, 99>>  \* "src"
L_action == <<97, 99, 116, 105, 111, 110>>  \* "action"
L_equalsQuote == <<61, 34>>  \* '="'
L_charsetGb2312 == <<99, 104, 97, 114, 115, 101, 116, 61, 103, 98, 50, 51, 49, 50>>  \* "charset=gb2312"
L_charsetUtf8 == <<99, 104, 97, 114, 115, 101, 116, 61, 117, 116, 102, 45, 56>>  \* "charset=utf-8"

\* The match of /(href|src)="(https?:\/\/.*?)/ that starts at position i:
\* the lazy .*? at the end of the pattern always matches the empty string,
\* so $2 is the scheme prefix alone.
AbsoluteMatches(text, i) ==
  {m \in [name : {L_href, L_src}, url : {L_httpsPrefix, L_httpPrefix}] :
     MatchesAt(text, m.name \o L_equalsQuote \o m.url, i)}

\* text.replace(regex, `$1="${protocol}//${host}/$2`) with the g flag.
RECURSIVE ReplaceAbsolute(_, _, _, _)
ReplaceAbsolute(text, i, protocol, host) ==
  LET hits == {k \in i..Len(text) : AbsoluteMatches(text, k) # {}}
  IN IF hits = {} THEN SliceFrom(text, i)
     ELSE
       LET k == Least(hits)
           m == CHOOSE x \in AbsoluteMatches(text, k) : TRUE
       IN SubSeq(text, i, k - 1)
          \o m.name \o L_equalsQuote \o protocol \o L_slashSlash \o host \o <<47>> \o m.url
          \o ReplaceAbsolute(text, k + Len(m.name) + 2 + Len(m.url), protocol, host)

\* The match of /((href|src|action)=["'])\/(?!\/)/ that starts at position i:
\* $1 is the attribute name, '=' and the quote; the '/' is part of the match
\* and the look-ahead refuses a second '/'.
RelativeMatches(text, i) ==
  {g \in {name \o <<61, q>> : name \in {L_href, L_src, L_action}, q \in {34, 39}} :
     /\ MatchesAt(text, g \o <<47>>, i)
     /\ ~MatchesAt(text, g \o L_slashSlash, i)}

RECURSIVE ReplaceRelative(_, _, _)
ReplaceRelative(text, i, replacement) ==
  LET hits == {k \in i..Len(text) : RelativeMatches(text, k) # {}}
  IN IF hits = {} THEN SliceFrom(text, i)
     ELSE
       LET k == Least(hits)
           g == CHOOSE x \in RelativeMatches(text, k) : TRUE
       IN SubSeq(text, i, k - 1) \o g \o replacement
          \o ReplaceRelative(text, k + Len(g) + 1, replacement)

\* replaceRelativePaths with the '/' left out of the pattern, so that the
\* slash of the link follows the inserted prefix.
replaceRelativePaths_keepSlash(text, protocol, host, origin) ==
  ReplaceRelative(text, 1,
                  protocol \o L_slashSlash \o host \o <<47>> \o origin \o <<47, 47>>)

\* text.replace(regex, `$1${protocol}//${host}/${origin}/`) with the g flag.
replaceRelativePaths(text, protocol, host, origin) ==
  ReplaceRelative(text, 1, protocol \o L_slashSlash \o host \o <<47>> \o origin \o <<47>>)

\* The text handleHtmlContent returns for the bytes of the response body.
handleHtmlContent(bytes, protocol, host, actualUrlStr) ==
  LET utf8 == DecodeUtf8(bytes)
      res == IF Includes(utf8, L_charsetGb2312)
             THEN ReplaceFirst(DecodeGb2312(bytes), L_charsetGb2312, L_charsetUtf8)
             ELSE utf8
      absolute == ReplaceAbsolute(res, 1, protocol, host)
  IN replaceRelativePaths(absolute, protocol, host, ParseURL(actualUrlStr).origin)

(***************************************************************************)
(* Headers, Request and Response of the Fetch API.  A header list is a     *)
(* function from lower-case names to values (the runtime lower-cases the   *)
(* names it stores).  A body is null, a stream of bytes or a string.       *)
(***************************************************************************)

L_location == <<108, 111, 99, 97, 116, 105, 111, 110>>  \* "location"
L_contentType == <<99, 111, 110, 116, 101, 110, 116, 45, 116, 121, 112, 101>>  \* "content-type"
L_cacheControl == <<99, 97, 99, 104, 101, 45, 99, 111, 110, 116, 114, 111, 108>>  \* "cache-control"
L_allowOrigin == <<97, 99, 99, 101, 115, 115, 45, 99, 111, 110, 116, 114, 111, 108, 45, 97, 108, 108, 111, 119, 45, 111, 114, 105, 103, 105, 110>>  \* "access-control-allow-origin"
L_allowMethods == <<97, 99, 99, 101, 115, 115, 45, 99, 111, 110, 116, 114, 111, 108, 45, 97, 108, 108, 111, 119, 45, 109, 101, 116, 104, 111, 100, 115>>  \* "access-control-allow-methods"
L_allowHeaders == <<97, 99, 99, 101, 115, 115, 45, 99, 111, 110, 116, 114, 111, 108, 45, 97, 108, 108, 111, 119, 45, 104, 101, 97, 100, 101, 114, 115>>  \* "access-control-allow-headers"
L_textPlain == <<116, 101, 120, 116, 47, 112, 108, 97, 105, 110, 59, 99, 104, 97, 114, 115, 101, 116, 61, 85, 84, 70, 45, 56>>  \* "text/plain;charset=UTF-8"
L_textHtml == <<116, 101, 120, 116, 47, 104, 116, 109, 108>>  \* "text/html"
L_htmlUtf8 == <<116, 101, 120, 116, 47, 104, 116, 109, 108, 59, 32, 99, 104, 97, 114, 115, 101, 116, 61, 117, 116, 102, 45, 56>>  \* "text/html; charset=utf-8"
L_json == <<97, 112, 112, 108, 105, 99, 97, 116, 105, 111, 110, 47, 106, 115, 111, 110, 59, 32, 99, 104, 97, 114, 115, 101, 116, 61, 117, 116, 102, 45, 56>>  \* "application/json; charset=utf-8"
L_noStore == <<110, 111, 45, 115, 116, 111, 114, 101>>  \* "no-store"
L_star == <<42>>  \* "*"
L_methods == <<71, 69, 84, 44, 32, 80, 79, 83, 84, 44, 32, 80, 85, 84, 44, 32, 68, 69, 76, 69, 84, 69>>  \* "GET, POST, PUT, DELETE"
L_cfPrefix == <<99, 102, 45>>  \* "cf-"
L_bing == <<47, 104, 116, 116, 112, 115, 58, 47, 47, 119, 119, 119, 46, 98, 105, 110, 103, 46, 99, 111, 109, 47, 115, 101, 97, 114, 99, 104, 63, 113, 61>>  \* "/https://www.bing.com/search?q="
L_errorOpen == <<123, 34, 101, 114, 114, 111, 114, 34, 58, 34>>  \* '{"error":"'
L_errorClose == <<34, 125>>  \* '"}'
L_defaultHtml == <<60, 33, 68, 79, 67, 84, 89, 80, 69, 32, 104, 116, 109, 108, 62>>  \* "<!DOCTYPE html>"

\* The messages of the exceptions the runtime throws.
L_uriMalformed == <<85, 82, 73, 32, 109, 97, 108, 102, 111, 114, 109, 101, 100>>  \* "URI malformed"
L_invalidUrl == <<73, 110, 118, 97, 108, 105, 100, 32, 85, 82, 76>>  \* "Invalid URL"
L_fetchFailed == <<102, 101, 116, 99, 104, 32, 102, 97, 105, 108, 101, 100>>  \* "fetch failed"
L_bodyFailed == <<98, 111, 100, 121, 32, 115, 116, 114, 101, 97, 109, 32, 102, 97, 105, 108, 101, 100>>  \* "body stream failed"
L_nullBodyStatus == <<82, 101, 115, 112, 111, 110, 115, 101, 32, 119, 105, 116, 104, 32, 110, 117, 108, 108, 32, 98, 111, 100, 121, 32, 115, 116, 97, 116, 117, 115, 32, 99, 97, 110, 110, 111, 116, 32, 104, 97, 118, 101, 32, 98, 111, 100, 121>>  \* "Response with null body status cannot have body"
L_statusRange == <<115, 116, 97, 116, 117, 115, 32, 111, 117, 116, 32, 111, 102, 32, 114, 97, 110, 103, 101>>  \* "status out of range"

NoHeaders == [n \in {} |-> <<>>]

\* Headers.prototype.set
HeaderSet(headers, name, value) ==
  [n \in DOMAIN headers \cup {name} |-> IF n = name THEN value ELSE headers[n]]

\* Headers.prototype.get(name) || '' : the value, the empty string when absent.
HeaderGetOrEmpty(headers, name) ==
  IF name \in DOMAIN headers THEN headers[name] ELSE <<>>

NullBody == [kind |-> "null", data |-> <<>>]
StreamBody(bytes) == [kind |-> "stream", data |-> bytes]
StringBody(text) == [kind |-> "string", data |-> text]

NoResponse ==
  [status |-> 0, statusText |-> "", headers |-> NoHeaders, body |-> NullBody]

\* A value returned, or an exception thrown with its message.
Returned(v) == [ok |-> TRUE, val |-> v, msg |-> <<>>]
Thrown(message) == [ok |-> FALSE, val |-> NoResponse, msg |-> message]

NullBodyStatuses == {101, 103, 204, 205, 304}

\* new Response(body, { status, statusText, headers }): RangeError for a
\* status outside 200..599, TypeError for a body with a null body status; a
\* string body gets a default Content-Type when the headers give none.
NewResponse(body, status, statusText, headers) ==
  IF status < 200 \/ status > 599 THEN Thrown(L_statusRange)
  ELSE IF body.kind # "null" /\ status \in NullBodyStatuses THEN Thrown(L_nullBodyStatus)
  ELSE Returned([status |-> status,
                 statusText |-> statusText,
                 headers |-> IF body.kind = "string" /\ L_contentType \notin DOMAIN headers
                             THEN HeaderSet(headers, L_contentType, L_textPlain)
                             ELSE headers,
                 body |-> body])

(***************************************************************************)
(* The functions of src/src/index.ts.                                      *)
(***************************************************************************)

\* path_regex.test(pathname): /^\/https?%3A%2F%2F|^\/https?:\//
path_regex(pathname) ==
  \/ StartsWith(pathname, <<47, 104, 116, 116, 112, 37, 51, 65, 37, 50, 70, 37, 50, 70>>)  \* "/http%3A%2F%2F"
  \/ StartsWith(pathname, <<47, 104, 116, 116, 112, 115, 37, 51, 65, 37, 50, 70, 37, 50, 70>>)  \* "/https%3A%2F%2F"
  \/ StartsWith(pathname, <<47, 104, 116, 116, 112, 58, 47>>)  \* "/http:/"
  \/ StartsWith(pathname, <<47, 104, 116, 116, 112, 115, 58, 47>>)  \* "/https:/"

\* ensureProtocol without its default: the string is used as it is.
ensureProtocol_asIs(url, defaultProtocol) == url

ensureProtocol(url, defaultProtocol) ==
  IF StartsWith(url, L_httpPrefix) \/ StartsWith(url, L_httpsPrefix)
  THEN url
  ELSE defaultProtocol \o L_slashSlash \o url

\* The predicate handleRequest passes to filterHeaders.
NotEdgeHeader(name) == ~StartsWith(name, L_cfPrefix)

\* filterHeaders(headers, filterFunc), the predicate given by the set of
\* names it accepts.
filterHeaders(headers, accepted) ==
  [n \in DOMAIN headers \cap accepted |-> headers[n]]

setNoCacheHeaders(headers) == HeaderSet(headers, L_cacheControl, L_noStore)

setCorsHeaders(headers) ==
  HeaderSet(HeaderSet(HeaderSet(headers, L_allowOrigin, L_star),
                      L_allowMethods, L_methods),
            L_allowHeaders, L_star)

\* JSON.stringify({ error: message })
JsonError(message) == L_errorOpen \o message \o L_errorClose

jsonResponse(message, status) ==
  NewResponse(StringBody(JsonError(message)), status, "",
              HeaderSet(NoHeaders, L_contentType, L_json)).val

\* { ...response.headers }: a Headers object has no own enumerable
\* properties, so the spread copies nothing.
SpreadHeaders(headers) == NoHeaders

\* The status list of line 57 with 308 left out.
RedirectStatuses_no308 == {301, 302, 303, 307}

RedirectStatuses == {301, 302, 303, 307, 308}

\* handleRedirect encoding the header value as received, not the parsed URL.
handleRedirect_rawLocation(response, body) ==
  LET raw == HeaderGetOrEmpty(response.headers, L_location)
  IN IF ~ParseURL(raw).ok THEN Thrown(L_invalidUrl)
     ELSE NewResponse(body, response.status, response.statusText,
                      HeaderSet(SpreadHeaders(response.headers), L_location,
                                <<47>> \o encodeURIComponent(raw)))

handleRedirect(response, body) ==
  LET location == ParseURL(HeaderGetOrEmpty(response.headers, L_location))
      modifiedLocation == <<47>> \o encodeURIComponent(location.href)
  IN IF ~location.ok THEN Thrown(L_invalidUrl)
     ELSE NewResponse(body, response.status, response.statusText,
                      HeaderSet(SpreadHeaders(response.headers), L_location,
                                modifiedLocation))

\* The response for the root path.
LandingPage ==
  NewResponse(StringBody(L_defaultHtml), 200, "",
              HeaderSet(NoHeaders, L_contentType, L_htmlUtf8)).val

\* The redirect to the web search.
SearchRedirect(url) ==
  NewResponse(NullBody, 302, "",
              HeaderSet(NoHeaders, L_location,
                        url.protocol \o L_slashSlash \o url.host \o L_bing
                        \o SliceFrom(url.pathname, 2))).val

\* Lines 28-34: the target URL string, or the URIError of the decoding.
ExtractTarget(url) ==
  LET decoded == decodeURIComponent(ReplaceFirst(url.pathname, <<47>>, <<>>))
  IN IF ~decoded.ok THEN [ok |-> FALSE, val |-> <<>>]
     ELSE [ok |-> TRUE, val |-> ensureProtocol(decoded.val, url.protocol) \o url.search]

\* new Request(actualUrlStr, { headers, method, body, redirect: 'manual' }):
\* the URL is parsed, and a URL that does not parse throws TypeError.
NewRequest(actualUrlStr, headers, method, hasBody) ==
  [ok |-> ParseURL(actualUrlStr).ok,
   val |-> [url |-> ParseURL(actualUrlStr).href,
            headers |-> headers,
            method |-> method,
            hasBody |-> hasBody,
            redirect |-> "manual"]]

\* fetch(input, { headers }): the request dispatched is new Request(input,
\* init), and an init that has headers replaces those of the input.
FetchRequest(input, initHeaders) == [input EXCEPT !.headers = initHeaders]

\* Lines 66-78: the response built from the outbound one, with the cache and
\* CORS headers set on it.
FinalizeResponse(body, response) ==
  LET made == NewResponse(body, response.status, response.statusText, response.headers)
  IN IF ~made.ok THEN made
     ELSE Returned([made.val EXCEPT
                      !.headers = setCorsHeaders(setNoCacheHeaders(made.val.headers))])

\* The condition of line 61.
IsHtml(response) ==
  /\ L_contentType \in DOMAIN response.headers
  /\ Includes(response.headers[L_contentType], L_textHtml)

\* handleRequest without its catch clause: the exception leaves the handler.
TryCatch_rethrow(result) ==
  IF result.ok THEN [returned |-> <<result.val>>, escaped |-> FALSE]
  ELSE [returned |-> <<>>, escaped |-> TRUE]

\* The try/catch of handleRequest: what the invocation hands back for the
\* result of its body.
TryCatch(result) ==
  IF result.ok THEN [returned |-> <<result.val>>, escaped |-> FALSE]
  ELSE [returned |-> <<jsonResponse(result.msg, 500)>>, escaped |-> FALSE]

(***************************************************************************)
(* The requests and the responses of the target the model draws from.      *)
(***************************************************************************)

\* Redirects a client follows through the proxy in one chain.
MaxHops == 1

L_proxyHost == <<112, 114, 111, 120, 121, 46, 101, 120, 97, 109, 112, 108, 101>>  \* "proxy.example"
L_httpsColon == <<104, 116, 116, 112, 115, 58>>  \* "https:"
L_httpColon == <<104, 116, 116, 112, 58>>  \* "http:"

Pathnames ==
  { <<47>>,  \* "/"
    <<47, 101, 120, 97, 109, 112, 108, 101, 46, 99, 111, 109, 47, 102, 111, 111>>,  \* "/example.com/foo"
    <<47, 104, 116, 116, 112, 58, 47, 120>>,  \* "/http:/x"
    <<47, 104, 116, 116, 112, 115, 58, 47, 47, 101, 120, 97, 109, 112, 108, 101, 46, 99, 111, 109, 47, 102, 111, 111>>,  \* "/https://example.com/foo"
    <<47, 104, 116, 116, 112, 58, 47, 47, 101, 120, 97, 109, 112, 108, 101, 46, 99, 111, 109>>,  \* "/http://example.com"
    <<47, 104, 116, 116, 112, 115, 37, 51, 65, 37, 50, 70, 37, 50, 70, 101, 120, 97, 109, 112, 108, 101, 46, 99, 111, 109, 37, 50, 70, 98, 97, 114>>,  \* "/https%3A%2F%2Fexample.com%2Fbar"
    <<47, 104, 116, 116, 112, 115, 37, 51, 97, 37, 50, 102, 37, 50, 102, 101, 120, 97, 109, 112, 108, 101, 46, 99, 111, 109>>,  \* "/https%3a%2f%2fexample.com"
    <<47, 104, 116, 116, 112, 115, 58, 47, 47, 37, 122, 122>>,  \* "/https://%zz"
    <<47, 104, 116, 116, 112, 115, 58, 47, 47>>,  \* "/https://"
    <<47, 104, 116, 116, 112, 115, 58, 47, 47, 101, 120, 97, 109, 112, 108, 101, 46, 99, 111, 109, 47, 104, 116, 116, 112, 58, 47, 47, 111, 116, 104, 101, 114>> }  \* "/https://example.com/http://other"

Searches == { <<>>, <<63, 120, 61, 49>> }  \* "?x=1"

RequestHeaderNames == { <<99, 102, 45, 114, 97, 121>>, <<97, 99, 99, 101, 112, 116>> }  \* "cf-ray" , "accept"

L_headerValue == <<118>>  \* "v"

RequestHeaderSets ==
  {[n \in names |-> L_headerValue] : names \in SUBSET RequestHeaderNames}

Requests ==
  [protocol : {L_httpsColon, L_httpColon},
   host : {L_proxyHost},
   pathname : Pathnames,
   search : Searches,
   headers : RequestHeaderSets,
   method : {"GET"}]
  \cup
  [protocol : {L_httpsColon},
   host : {L_proxyHost},
   pathname : Pathnames,
   search : {<<>>},
   headers : {[n \in {<<99, 102, 45, 99, 111, 110, 110, 101, 99, 116, 105, 110, 103, 45, 105, 112>>, <<99, 111, 111, 107, 105, 101>>} |-> L_headerValue]},  \* "cf-connecting-ip" , "cookie"
   method : {"POST"}]

NoRequest ==
  [protocol |-> <<>>, host |-> <<>>, pathname |-> <<>>, search |-> <<>>,
   headers |-> NoHeaders, method |-> ""]

Locations ==
  { <<104, 116, 116, 112, 115, 58, 47, 47, 101, 120, 97, 109, 112, 108, 101, 46, 99, 111, 109, 47, 98, 97, 114>>,  \* "https://example.com/bar"
    <<104, 116, 116, 112, 115, 58, 47, 47, 101, 120, 97, 109, 112, 108, 101, 46, 99, 111, 109>>,  \* "https://example.com"
    <<104, 116, 116, 112, 58, 47, 47, 69, 120, 97, 109, 112, 108, 101, 46, 99, 111, 109, 58, 56, 48, 47, 97, 63, 98, 61, 99, 35, 100>>,  \* "http://Example.com:80/a?b=c#d"
    <<47, 108, 111, 103, 105, 110>> }  \* "/login"

L_setCookie == <<115, 101, 116, 45, 99, 111, 111, 107, 105, 101>>  \* "set-cookie"
L_cookie == <<97, 61, 98>>  \* "a=b"
L_maxAge == <<109, 97, 120, 45, 97, 103, 101, 61, 54, 48>>  \* "max-age=60"
L_appJson == <<97, 112, 112, 108, 105, 99, 97, 116, 105, 111, 110, 47, 106, 115, 111, 110>>  \* "application/json"

\* Header lists of the target: headers of its own to pass through, with or
\* without a Content-Type.
TargetHeaders(contentTypes) ==
  {[n \in names |-> IF n = L_setCookie THEN L_cookie ELSE L_maxAge] :
     names \in {{L_setCookie, L_cacheControl}}}
  \cup
  {[n \in {L_contentType, L_setCookie} |-> IF n = L_setCookie THEN L_cookie ELSE ct] :
     ct \in contentTypes}

StatusTexts ==
  [s \in {200, 204, 301, 302, 303, 304, 307, 308, 404} |->
     CASE s = 200 -> "OK"
       [] s = 204 -> "No Content"
       [] s = 301 -> "Moved Permanently"
       [] s = 302 -> "Found"
       [] s = 303 -> "See Other"
       [] s = 304 -> "Not Modified"
       [] s = 307 -> "Temporary Redirect"
       [] s = 308 -> "Permanent Redirect"
       [] OTHER -> "Not Found"]

HtmlBodies ==
  { <<60, 105, 109, 103, 32, 115, 114, 99, 61, 34, 47, 108, 111, 103, 111, 46, 112, 110, 103, 34, 62>>,  \* '<img src="/logo.png">'
    <<60, 97, 32, 104, 114, 101, 102, 61, 34, 47, 47, 99, 100, 110, 46, 120, 47, 97, 34, 62>>,  \* '<a href="//cdn.x/a">'
    <<60, 97, 32, 104, 114, 101, 102, 61, 34, 104, 116, 116, 112, 115, 58, 47, 47, 111, 116, 104, 101, 114, 46, 99, 111, 109, 47, 120, 34, 62>>,  \* '<a href="https://other.com/x">'
    <<60, 102, 111, 114, 109, 32, 97, 99, 116, 105, 111, 110, 61, 39, 47, 103, 111, 39, 62, 60, 97, 32, 104, 114, 101, 102, 61, 34, 47, 34, 62>>,  \* '<form action='/go'><a href="/">'
    <<99, 104, 97, 114, 115, 101, 116, 61, 103, 98, 50, 51, 49, 50>> \o <<214, 208>>,  \* "charset=gb2312"
    <<99, 104, 97, 114, 115, 101, 116, 61, 103, 98, 50, 51, 49, 50, 32, 99, 104, 97, 114, 115, 101, 116, 61, 103, 98, 50, 51, 49, 50>>,  \* "charset=gb2312 charset=gb2312"
    <<214>> \o <<99, 104, 97, 114, 115, 101, 116, 61, 103, 98, 50, 51, 49, 50>>,  \* "charset=gb2312"
    <<228, 184, 173>> \o <<32, 99, 104, 97, 114, 115, 101, 116, 61, 117, 116, 102, 45, 56>> }  \* " charset=utf-8"

L_moved == <<109, 111, 118, 101, 100>>  \* "moved"
L_data == <<123, 34, 97, 34, 58, 49, 125>>  \* '{"a":1}'

RedirectResponses ==
  {[status |-> st, statusText |-> StatusTexts[st], headers |-> h, body |-> StreamBody(L_moved)] :
     st \in {301, 302, 303, 307, 308},
     h \in {hs : hs \in TargetHeaders({L_htmlUtf8})}
           \cup {HeaderSet(hs, L_location, loc) :
                   hs \in TargetHeaders({L_htmlUtf8}), loc \in Locations}}

HtmlResponses ==
  {[status |-> st, statusText |-> StatusTexts[st],
    headers |-> HeaderSet(HeaderSet(NoHeaders, L_contentType, L_htmlUtf8), L_setCookie, L_cookie),
    body |-> StreamBody(b)] :
     st \in {200, 404}, b \in HtmlBodies}
  \cup
  {[status |-> 304, statusText |-> StatusTexts[304],
    headers |-> HeaderSet(NoHeaders, L_contentType, L_htmlUtf8),
    body |-> NullBody]}

OtherResponses ==
  {[status |-> st, statusText |-> StatusTexts[st], headers |-> h, body |-> StreamBody(L_data)] :
     st \in {200, 404}, h \in TargetHeaders({L_appJson})}
  \cup
  {[status |-> 204, statusText |-> StatusTexts[204], headers |-> NoHeaders, body |-> NullBody]}

TargetResponses == RedirectResponses \cup HtmlResponses \cup OtherResponses

(***************************************************************************)
(* One invocation of handleRequest: it runs to the await of fetch, to the  *)
(* await of arrayBuffer for an HTML body, and to its return.               *)
(***************************************************************************)

VARIABLES
  pc,            \* "idle", "fetch" | "arrayBuffer" (suspended at an await), "done"
  request,       \* the inbound request of the invocation
  actualUrlStr,  \* the local of that name
  outbound,      \* the requests dispatched to the target by the invocation
  upstream,      \* the response fetch resolved with
  returned,      \* the responses the invocation has returned
  escaped,       \* an exception left handleRequest
  thrown,        \* the exception the body of the try block threw, if any
  hops,          \* redirects the client has followed in this chain
  followed       \* the Location of the target the client is following

vars ==
  <<pc, request, actualUrlStr, outbound, upstream, returned, escaped, thrown,
    hops, followed>>

NothingThrown == [raised |-> FALSE, msg |-> <<>>]

Init ==
  /\ pc = "idle"
  /\ request = NoRequest
  /\ actualUrlStr = <<>>
  /\ outbound = <<>>
  /\ upstream = NoResponse
  /\ returned = <<>>
  /\ escaped = FALSE
  /\ thrown = NothingThrown
  /\ hops = 0
  /\ followed = <<>>

\* The invocation ends: result is what the body of its try block produced.
Finish(result) ==
  /\ pc' = "done"
  /\ thrown' = [raised |-> ~result.ok, msg |-> result.msg]
  /\ returned' = returned \o TryCatch(result).returned
  /\ escaped' = TryCatch(result).escaped

\* Lines 5-45: handleRequest from its entry to the call of fetch.  await
\* tells that it got there, with the request it dispatches.
StartOf(req) ==
  IF req.pathname = <<47>> THEN
    [await |-> FALSE, result |-> Returned(LandingPage),
     actualUrlStr |-> <<>>, outbound |-> <<>>]
  ELSE IF ~path_regex(req.pathname) THEN
    [await |-> FALSE, result |-> Returned(SearchRedirect(req)),
     actualUrlStr |-> <<>>, outbound |-> <<>>]
  ELSE IF ~ExtractTarget(req).ok THEN
    [await |-> FALSE, result |-> Thrown(L_uriMalformed),
     actualUrlStr |-> <<>>, outbound |-> <<>>]
  ELSE
    LET target == ExtractTarget(req).val
        newHeaders == filterHeaders(req.headers,
                                    {n \in DOMAIN req.headers : NotEdgeHeader(n)})
        modifiedRequest == NewRequest(target, newHeaders, req.method, req.method # "GET")
    IN IF ~modifiedRequest.ok THEN
         [await |-> FALSE, result |-> Thrown(L_invalidUrl),
          actualUrlStr |-> target, outbound |-> <<>>]
       ELSE
         [await |-> TRUE, result |-> Returned(NoResponse),
          actualUrlStr |-> target,
          outbound |-> <<FetchRequest(modifiedRequest.val, req.headers)>>]

\* An invocation of handleRequest starts and runs to its first await or to
\* its return.
Begin(req) ==
  /\ request' = req
  /\ upstream' = NoResponse
  /\ actualUrlStr' = StartOf(req).actualUrlStr
  /\ outbound' = StartOf(req).outbound
  /\ IF StartOf(req).await THEN
       /\ pc' = "fetch"
       /\ returned' = <<>>
       /\ escaped' = FALSE
       /\ thrown' = NothingThrown
     ELSE
       /\ pc' = "done"
       /\ thrown' = [raised |-> ~StartOf(req).result.ok, msg |-> StartOf(req).result.msg]
       /\ returned' = TryCatch(StartOf(req).result).returned
       /\ escaped' = TryCatch(StartOf(req).result).escaped

\* A client sends a request of its own.  Invocations share no state, so a
\* behaviour is one request and the redirects the client follows from it.
Receive ==
  /\ pc = "idle"
  /\ \E req \in Requests : Begin(req)
  /\ hops' = 0
  /\ followed' = <<>>

\* The URL a client resolves the Location of a response to, against the URL
\* of the request that was answered.
ResolveLocation(req, location) ==
  IF StartsWith(location, <<47>>)
  THEN ParseURL(req.protocol \o L_slashSlash \o req.host \o location)
  ELSE ParseURL(location)

\* The client follows the redirect it was answered with, when that leads
\* back to the proxy.
ClientFollows ==
  /\ pc = "done"
  /\ hops < MaxHops
  /\ Len(returned) = 1
  /\ returned[1].status \in RedirectStatuses
  /\ L_location \in DOMAIN returned[1].headers
  /\ LET to == ResolveLocation(request, returned[1].headers[L_location])
     IN /\ to.ok
        /\ to.protocol = request.protocol
        /\ to.host = request.host
        /\ Begin([protocol |-> to.protocol,
                  host |-> to.host,
                  pathname |-> to.pathname,
                  search |-> to.search,
                  headers |-> request.headers,
                  method |-> "GET"])
  /\ hops' = hops + 1
  /\ followed' = HeaderGetOrEmpty(upstream.headers, L_location)

\* fetch resolves; lines 54-78 run to the return, or to the await of the
\* body when the response is HTML.
FetchResolves ==
  /\ pc = "fetch"
  /\ \E r \in TargetResponses :
       /\ upstream' = r
       /\ IF r.status \in RedirectStatuses THEN Finish(handleRedirect(r, r.body))
          ELSE IF IsHtml(r) THEN
            /\ pc' = "arrayBuffer"
            /\ UNCHANGED <<returned, escaped, thrown>>
          ELSE Finish(FinalizeResponse(r.body, r))
  /\ UNCHANGED <<request, actualUrlStr, outbound, hops, followed>>

\* fetch rejects: the connection to the target failed.
FetchRejects ==
  /\ pc = "fetch"
  /\ Finish(Thrown(L_fetchFailed))
  /\ UNCHANGED <<request, actualUrlStr, outbound, upstream, hops, followed>>

\* response.arrayBuffer() resolves; lines 119-136 and 66-78 run.
BodyResolves ==
  /\ pc = "arrayBuffer"
  /\ Finish(FinalizeResponse(
       StringBody(handleHtmlContent(upstream.body.data, request.protocol,
                                    request.host, actualUrlStr)),
       upstream))
  /\ UNCHANGED <<request, actualUrlStr, outbound, upstream, hops, followed>>

\* response.arrayBuffer() rejects: the body stream failed.
BodyRejects ==
  /\ pc = "arrayBuffer"
  /\ Finish(Thrown(L_bodyFailed))
  /\ UNCHANGED <<request, actualUrlStr, outbound, upstream, hops, followed>>

Next ==
  \/ Receive
  \/ ClientFollows
  \/ FetchResolves
  \/ FetchRejects
  \/ BodyResolves
  \/ BodyRejects

Spec == Init /\ [][Next]_vars

(***************************************************************************)
(* The claims.                                                             *)
(***************************************************************************)

\* The invocation has returned one response, and it is that response.
Answered == pc = "done" /\ Len(returned) = 1
Answer == returned[1]

\* The statuses the redirect branch is for, as the claims list them.
ClaimedRedirects == {301, 302, 303, 307, 308}

\* The percent-decoded path without its leading slash.
DecodedTail == decodeURIComponent(SliceFrom(request.pathname, 2))

HasSchemePrefix(text) ==
  StartsWith(text, <<104, 116, 116, 112, 58, 47, 47>>) \/ StartsWith(text, <<104, 116, 116, 112, 115, 58, 47, 47>>)  \* "http://" , "https://"

\* C1: every response handleRequest returns, on every branch, carries
\* Cache-Control: no-store and Access-Control-Allow-Origin: *.
C1_EveryResponseCarriesCacheAndCors ==
  \A i \in 1..Len(returned) :
    /\ HeaderGetOrEmpty(returned[i].headers, <<99, 97, 99, 104, 101, 45, 99, 111, 110, 116, 114, 111, 108>>) = <<110, 111, 45, 115, 116, 111, 114, 101>>  \* "cache-control" , "no-store"
    /\ HeaderGetOrEmpty(returned[i].headers, <<97, 99, 99, 101, 115, 115, 45, 99, 111, 110, 116, 114, 111, 108, 45, 97, 108, 108, 111, 119, 45, 111, 114, 105, 103, 105, 110>>) = <<42>>  \* "access-control-allow-origin" , "*"

\* C2: no request dispatched to the target carries a header whose name
\* starts with 'cf-', whatever headers the inbound request had.
C2_NoEdgeHeaderOutbound ==
  \A i \in 1..Len(outbound) :
    \A n \in DOMAIN outbound[i].headers : ~StartsWith(n, <<99, 102, 45>>)  \* "cf-"

\* A step of the pipeline failed: an exception was thrown in the try block,
\* or the state shows one of the failures the claim lists.
C3_StepFailed ==
  \/ thrown.raised
  \/ /\ request.pathname # <<47>>
     /\ path_regex(request.pathname)
     /\ ~DecodedTail.ok
  \/ actualUrlStr # <<>> /\ ~ParseURL(actualUrlStr).ok
  \/ Len(outbound) = 1 /\ upstream = NoResponse
  \/ /\ upstream.status \in ClaimedRedirects
     /\ ~ParseURL(HeaderGetOrEmpty(upstream.headers, <<108, 111, 99, 97, 116, 105, 111, 110>>)).ok  \* "location"

\* C3: a failure at any pipeline step ends the request with exactly one
\* response, of status 500, Content-Type application/json; charset=utf-8 and
\* a JSON body with an 'error' field; no exception leaves handleRequest and
\* no invocation returns a second response.
C3_FailureIs500Json ==
  /\ ~escaped
  /\ Len(returned) <= 1
  /\ (pc = "done" /\ C3_StepFailed) =>
       /\ Len(returned) = 1
       /\ Answer.status = 500
       /\ HeaderGetOrEmpty(Answer.headers, <<99, 111, 110, 116, 101, 110, 116, 45, 116, 121, 112, 101>>)  \* "content-type"
            = <<97, 112, 112, 108, 105, 99, 97, 116, 105, 111, 110, 47, 106, 115, 111, 110, 59, 32, 99, 104, 97, 114, 115, 101, 116, 61, 117, 116, 102, 45, 56>>  \* "application/json; charset=utf-8"
       /\ Answer.body.kind = "string"
       /\ Answer.body.data = <<123, 34, 101, 114, 114, 111, 114, 34, 58, 34>> \o thrown.msg \o <<34, 125>>  \* '{"error":"' , '"}'
       /\ thrown.msg # <<>>

\* A 3xx response of the target without a Location was answered with the 500.
C3_Witness ==
  /\ Answered
  /\ upstream.status = 302
  /\ <<108, 111, 99, 97, 116, 105, 111, 110>> \notin DOMAIN upstream.headers  \* "location"
  /\ Answer.status = 500
  /\ thrown.raised

\* The two forms of a target path the claim names.
C4_ClaimedTargetForm(p) ==
  \/ StartsWith(p, <<47, 104, 116, 116, 112, 58, 47, 47>>)  \* "/http://"
  \/ StartsWith(p, <<47, 104, 116, 116, 112, 115, 58, 47, 47>>)  \* "/https://"
  \/ StartsWith(p, <<47, 104, 116, 116, 112, 37, 51, 65, 37, 50, 70, 37, 50, 70>>)  \* "/http%3A%2F%2F"
  \/ StartsWith(p, <<47, 104, 116, 116, 112, 115, 37, 51, 65, 37, 50, 70, 37, 50, 70>>)  \* "/https%3A%2F%2F"

\* C4: every non-root path that matches neither ^/https?:// nor
\* ^/https?%3A%2F%2F is answered with the 302 to the web search, with the
\* path without its leading slash as the query, and is not forwarded.
C4_OtherPathsGetSearchRedirect ==
  (/\ pc # "idle"
   /\ request.pathname # <<47>>
   /\ ~C4_ClaimedTargetForm(request.pathname)) =>
     /\ Answered
     /\ outbound = <<>>
     /\ Answer.status = 302
     /\ HeaderGetOrEmpty(Answer.headers, <<108, 111, 99, 97, 116, 105, 111, 110>>)  \* "location"
          = request.protocol \o <<47, 47>> \o request.host  \* "//"
            \o <<47, 104, 116, 116, 112, 115, 58, 47, 47, 119, 119, 119, 46, 98, 105, 110, 103, 46, 99, 111, 109, 47, 115, 101, 97, 114, 99, 104, 63, 113, 61>> \o SliceFrom(request.pathname, 2)  \* "/https://www.bing.com/search?q="

\* The URL the claim has a path without scheme prefix forwarded to.
C5_DefaultedTarget ==
  request.protocol \o <<47, 47>> \o DecodedTail.val \o request.search  \* "//"

\* C5 as stated: a request for a path that has no http:// or https:// prefix,
\* such as /example.com/foo, is forwarded to the URL formed by prepending
\* the scheme of the inbound request and '//'.
C5_SchemelessPathIsForwarded ==
  (/\ pc # "idle"
   /\ request.pathname # <<47>>
   /\ DecodedTail.ok
   /\ ~HasSchemePrefix(DecodedTail.val)
   /\ ParseURL(C5_DefaultedTarget).ok) =>
     /\ Len(outbound) = 1
     /\ outbound[1].url = ParseURL(C5_DefaultedTarget).href

\* The path check of the handler: the path starts with /http:/, /https:/,
\* /http%3A%2F%2F or /https%3A%2F%2F.
C5_PassesPathCheck(p) ==
  \/ StartsWith(p, <<47, 104, 116, 116, 112, 58, 47>>)  \* "/http:/"
  \/ StartsWith(p, <<47, 104, 116, 116, 112, 115, 58, 47>>)  \* "/https:/"
  \/ StartsWith(p, <<47, 104, 116, 116, 112, 37, 51, 65, 37, 50, 70, 37, 50, 70>>)  \* "/http%3A%2F%2F"
  \/ StartsWith(p, <<47, 104, 116, 116, 112, 115, 37, 51, 65, 37, 50, 70, 37, 50, 70>>)  \* "/https%3A%2F%2F"

\* C5 amended: a path that passes the path check and whose decoding has no
\* http:// or https:// prefix (such as /http:/x) is forwarded to the URL
\* formed by prepending the scheme of the inbound request and '//'; a
\* non-root path that does not pass the check (such as /example.com/foo) is
\* answered with the search redirect and is not forwarded.
C5_DefaultSchemeOnlyPastPathCheck ==
  /\ (/\ pc # "idle"
      /\ C5_PassesPathCheck(request.pathname)
      /\ DecodedTail.ok
      /\ ~HasSchemePrefix(DecodedTail.val)) =>
        /\ actualUrlStr = C5_DefaultedTarget
        /\ ParseURL(C5_DefaultedTarget).ok =>
             /\ Len(outbound) = 1
             /\ outbound[1].url = ParseURL(C5_DefaultedTarget).href
  /\ (/\ pc # "idle"
      /\ request.pathname # <<47>>
      /\ ~C5_PassesPathCheck(request.pathname)) =>
        /\ Answered
        /\ outbound = <<>>
        /\ Answer.status = 302

\* /http:/x received over https: is being fetched from https://http/x, the
\* serialisation of https://http:/x.
C5_Witness ==
  /\ pc = "fetch"
  /\ request.pathname = <<47, 104, 116, 116, 112, 58, 47, 120>>  \* "/http:/x"
  /\ request.protocol = <<104, 116, 116, 112, 115, 58>>  \* "https:"
  /\ request.search = <<>>
  /\ actualUrlStr = <<104, 116, 116, 112, 115, 58, 47, 47, 104, 116, 116, 112, 58, 47, 120>>  \* "https://http:/x"
  /\ outbound[1].url = <<104, 116, 116, 112, 115, 58, 47, 47, 104, 116, 116, 112, 47, 120>>  \* "https://http/x"

\* The Location of the 3xx response of the target.
UpstreamLocation == HeaderGetOrEmpty(upstream.headers, <<108, 111, 99, 97, 116, 105, 111, 110>>)  \* "location"

\* A 3xx response of the target with an absolute Location was answered.
C6_RedirectRewritten ==
  /\ Answered
  /\ upstream.status \in ClaimedRedirects
  /\ ParseURL(UpstreamLocation).ok

\* C6 as stated: the Location returned is '/' and the percent-encoding of the
\* Location L of the target, and decoding what follows the '/' gives L.
C6_LocationRoundTripsExactly ==
  C6_RedirectRewritten =>
    LET rewritten == HeaderGetOrEmpty(Answer.headers, <<108, 111, 99, 97, 116, 105, 111, 110>>)  \* "location"
    IN /\ rewritten = <<47>> \o encodeURIComponent(UpstreamLocation)
       /\ decodeURIComponent(SliceFrom(rewritten, 2)).ok
       /\ decodeURIComponent(SliceFrom(rewritten, 2)).val = UpstreamLocation

\* C6 amended: the Location returned is '/' and the percent-encoding of the
\* serialisation of L as a parsed URL; decoding what follows the '/' gives
\* that serialisation, which is L itself when L is already in serialised
\* form; and a client that follows the redirect through the proxy has the
\* target extracted as that serialisation.
C6_LocationRoundTripsSerialised ==
  /\ C6_RedirectRewritten =>
       LET rewritten == HeaderGetOrEmpty(Answer.headers, <<108, 111, 99, 97, 116, 105, 111, 110>>)  \* "location"
           serialised == ParseURL(UpstreamLocation).href
       IN /\ rewritten = <<47>> \o encodeURIComponent(serialised)
          /\ decodeURIComponent(SliceFrom(rewritten, 2)).ok
          /\ decodeURIComponent(SliceFrom(rewritten, 2)).val = serialised
          /\ Answer.status = upstream.status
  /\ (pc # "idle" /\ followed # <<>>) =>
       /\ actualUrlStr = ParseURL(followed).href
       /\ Len(outbound) = 1
       /\ outbound[1].url = ParseURL(followed).href

\* The client followed the rewritten Location of https://example.com, and the
\* target extracted is https://example.com/.
C6_Witness ==
  /\ pc = "fetch"
  /\ followed = <<104, 116, 116, 112, 115, 58, 47, 47, 101, 120, 97, 109, 112, 108, 101, 46, 99, 111, 109>>  \* "https://example.com"
  /\ request.pathname = <<47, 104, 116, 116, 112, 115, 37, 51, 65, 37, 50, 70, 37, 50, 70, 101, 120, 97, 109, 112, 108, 101, 46, 99, 111, 109, 37, 50, 70>>  \* "/https%3A%2F%2Fexample.com%2F"
  /\ outbound[1].url = <<104, 116, 116, 112, 115, 58, 47, 47, 101, 120, 97, 109, 112, 108, 101, 46, 99, 111, 109, 47>>  \* "https://example.com/"

\* C7: a rewritten 3xx response differs from the response of the target
\* only in its Location: same status and status text, and every other
\* header of the target present with its value.
C7_RedirectKeepsOtherHeaders ==
  C6_RedirectRewritten =>
    /\ Answer.status = upstream.status
    /\ Answer.statusText = upstream.statusText
    /\ \A n \in DOMAIN upstream.headers \ {<<108, 111, 99, 97, 116, 105, 111, 110>>} :  \* "location"
         /\ n \in DOMAIN Answer.headers
         /\ Answer.headers[n] = upstream.headers[n]

\* An HTML response of the target was rewritten and answered.
HtmlAnswered ==
  /\ Answered
  /\ upstream.status \notin ClaimedRedirects
  /\ upstream.status # 0
  /\ Includes(HeaderGetOrEmpty(upstream.headers, <<99, 111, 110, 116, 101, 110, 116, 45, 116, 121, 112, 101>>), <<116, 101, 120, 116, 47, 104, 116, 109, 108>>)  \* "content-type" , "text/html"
  /\ Answer.status = upstream.status
  /\ Answer.body.kind = "string"

\* The attribute openers of a root-relative link.
C8_Openers ==
  {name \o <<61, quote>> : name \in {<<104, 114, 101, 102>>, <<115, 114, 99>>, <<97, 99, 116, 105, 111, 110>>}, quote \in {34, 39}}  \* "href" , "src" , "action"

\* The text with the prefix put after the opening quote of every
\* root-relative link, the leading slash of the link kept or dropped.
RECURSIVE C8_Prefixed(_, _, _, _)
C8_Prefixed(text, i, prefix, keepSlash) ==
  LET links == {k \in i..Len(text) :
                  \E g \in C8_Openers :
                    /\ MatchesAt(text, g \o <<47>>, k)
                    /\ ~MatchesAt(text, g \o <<47, 47>>, k)}
  IN IF links = {} THEN SliceFrom(text, i)
     ELSE LET k == Least(links)
              g == CHOOSE x \in C8_Openers : MatchesAt(text, x, k)
          IN SubSeq(text, i, k - 1) \o g \o prefix
             \o (IF keepSlash THEN <<47>> ELSE <<>>)
             \o C8_Prefixed(text, k + Len(g) + 1, prefix, keepSlash)

\* The text the root-relative rewrite is applied to, and the prefix
\* {protocol}//{host}/{origin}/ of the invocation.
C8_Input ==
  LET utf8 == DecodeUtf8(upstream.body.data)
      text == IF Includes(utf8, <<99, 104, 97, 114, 115, 101, 116, 61, 103, 98, 50, 51, 49, 50>>)  \* "charset=gb2312"
              THEN ReplaceFirst(DecodeGb2312(upstream.body.data),
                                <<99, 104, 97, 114, 115, 101, 116, 61, 103, 98, 50, 51, 49, 50>>, <<99, 104, 97, 114, 115, 101, 116, 61, 117, 116, 102, 45, 56>>)  \* "charset=gb2312" , "charset=utf-8"
              ELSE utf8
  IN ReplaceAbsolute(text, 1, request.protocol, request.host)

C8_Prefix ==
  request.protocol \o <<47, 47>> \o request.host \o <<47>>  \* "//"
  \o ParseURL(actualUrlStr).origin \o <<47>>

\* C8 as stated: the prefix is inserted after the opening quote and the
\* leading slash of the link is kept, so two slashes follow the origin.
C8_RelativeLinksKeepTheirSlash ==
  HtmlAnswered => Answer.body.data = C8_Prefixed(C8_Input, 1, C8_Prefix, TRUE)

\* C8 amended: the prefix {protocol}//{host}/{origin}/ takes the place of the
\* leading slash of every root-relative link (quoted with " or '), so one
\* slash follows the origin; links that start with // are left as they are.
C8_RelativeLinksGetOneSlash ==
  /\ HtmlAnswered => Answer.body.data = C8_Prefixed(C8_Input, 1, C8_Prefix, FALSE)
  /\ (/\ HtmlAnswered
      /\ upstream.body.data = <<60, 105, 109, 103, 32, 115, 114, 99, 61, 34, 47, 108, 111, 103, 111, 46, 112, 110, 103, 34, 62>>  \* '<img src="/logo.png">'
      /\ request.protocol = <<104, 116, 116, 112, 115, 58>>  \* "https:"
      /\ ParseURL(actualUrlStr).origin = <<104, 116, 116, 112, 115, 58, 47, 47, 101, 120, 97, 109, 112, 108, 101, 46, 99, 111, 109>>) =>  \* "https://example.com"
        Answer.body.data
          = <<60, 105, 109, 103, 32, 115, 114, 99, 61, 34, 104, 116, 116, 112, 115, 58, 47, 47, 112, 114, 111, 120, 121, 46, 101, 120, 97, 109, 112, 108, 101, 47, 104, 116, 116, 112, 115, 58, 47, 47, 101, 120, 97, 109, 112, 108, 101, 46, 99, 111, 109, 47, 108, 111, 103, 111, 46, 112, 110, 103, 34, 62>>  \* '<img src="https://proxy.example/https://example.com/logo.png">'
  /\ (/\ HtmlAnswered
      /\ upstream.body.data = <<60, 97, 32, 104, 114, 101, 102, 61, 34, 47, 47, 99, 100, 110, 46, 120, 47, 97, 34, 62>>) =>  \* '<a href="//cdn.x/a">'
        Answer.body.data = <<60, 97, 32, 104, 114, 101, 102, 61, 34, 47, 47, 99, 100, 110, 46, 120, 47, 97, 34, 62>>  \* '<a href="//cdn.x/a">'

\* <img src="/logo.png"> of https://example.com was rewritten behind
\* https://proxy.example.
C8_Witness ==
  /\ HtmlAnswered
  /\ upstream.body.data = <<60, 105, 109, 103, 32, 115, 114, 99, 61, 34, 47, 108, 111, 103, 111, 46, 112, 110, 103, 34, 62>>  \* '<img src="/logo.png">'
  /\ request.protocol = <<104, 116, 116, 112, 115, 58>>  \* "https:"
  /\ ParseURL(actualUrlStr).origin = <<104, 116, 116, 112, 115, 58, 47, 47, 101, 120, 97, 109, 112, 108, 101, 46, 99, 111, 109>>  \* "https://example.com"
  /\ Answer.body.data
       = <<60, 105, 109, 103, 32, 115, 114, 99, 61, 34, 104, 116, 116, 112, 115, 58, 47, 47, 112, 114, 111, 120, 121, 46, 101, 120, 97, 109, 112, 108, 101, 47, 104, 116, 116, 112, 115, 58, 47, 47, 101, 120, 97, 109, 112, 108, 101, 46, 99, 111, 109, 47, 108, 111, 103, 111, 46, 112, 110, 103, 34, 62>>  \* '<img src="https://proxy.example/https://example.com/logo.png">'

\* C9: for an HTML body whose UTF-8 decoding contains charset=gb2312, once
\* or several times, the text returned is the GB2312 decoding of the bytes
\* with charset=utf-8 in place of charset=gb2312: it contains charset=utf-8
\* and no charset=gb2312.
C9_NoGb2312MarkerRemains ==
  (/\ HtmlAnswered
   /\ Includes(DecodeUtf8(upstream.body.data), <<99, 104, 97, 114, 115, 101, 116, 61, 103, 98, 50, 51, 49, 50>>)) =>  \* "charset=gb2312"
     /\ Includes(Answer.body.data, <<99, 104, 97, 114, 115, 101, 116, 61, 117, 116, 102, 45, 56>>)  \* "charset=utf-8"
     /\ ~Includes(Answer.body.data, <<99, 104, 97, 114, 115, 101, 116, 61, 103, 98, 50, 51, 49, 50>>)  \* "charset=gb2312"

\* The path is the root, or the request was answered with the search redirect.
C10_RootOrSearch ==
  \/ request.pathname = <<47>>
  \/ /\ Answered
     /\ upstream = NoResponse
     /\ Answer.status = 302
     /\ StartsWith(HeaderGetOrEmpty(Answer.headers, <<108, 111, 99, 97, 116, 105, 111, 110>>),  \* "location"
                   request.protocol \o <<47, 47>> \o request.host  \* "//"
                   \o <<47, 104, 116, 116, 112, 115, 58, 47, 47, 119, 119, 119, 46, 98, 105, 110, 103, 46, 99, 111, 109, 47, 115, 101, 97, 114, 99, 104, 63, 113, 61>>)  \* "/https://www.bing.com/search?q="

\* The target could not be extracted: the percent-decoding of the path or
\* the parsing of the target URL throws before anything is dispatched.
C10_ExtractionFails ==
  \/ ~DecodedTail.ok
  \/ ~ParseURL((IF HasSchemePrefix(DecodedTail.val) THEN DecodedTail.val
                ELSE request.protocol \o <<47, 47>> \o DecodedTail.val)  \* "//"
               \o request.search).ok

\* What C10 says of every invocation apart from the count of requests: at
\* most one request to the target, one response once it has ended, and a
\* 3xx response of the target never handed to the HTML rewrite.
C10_OnePassPipeline ==
  /\ Len(outbound) <= 1
  /\ Len(returned) <= 1
  /\ pc = "done" => Len(returned) = 1
  /\ pc \in {"fetch", "arrayBuffer"} => returned = <<>>
  /\ pc = "arrayBuffer" => upstream.status \notin ClaimedRedirects
  /\ (Answered /\ upstream.status \in ClaimedRedirects) =>
       \/ Answer.status = 500
       \/ Answer.body = upstream.body

\* C10 as stated: no request to the target when the path is the root or is
\* answered with the search redirect, exactly one otherwise.
C10_OneRequestUnlessRootOrSearch ==
  /\ C10_OnePassPipeline
  /\ pc # "idle" => Len(outbound) = (IF C10_RootOrSearch THEN 0 ELSE 1)

\* C10 amended: no request to the target when the path is the root, is
\* answered with the search redirect, or has no extractable target (the
\* decoding or the URL parsing throws and the 500 is returned); exactly one
\* otherwise.
C10_OneRequestUnlessNoTarget ==
  /\ C10_OnePassPipeline
  /\ pc # "idle" =>
       Len(outbound) = (IF C10_RootOrSearch \/ C10_ExtractionFails THEN 0 ELSE 1)

\* A 301 of the target with Content-Type text/html was answered by the
\* redirect branch, after one request to the target.
C10_Witness ==
  /\ Answered
  /\ upstream.status = 301
  /\ Includes(HeaderGetOrEmpty(upstream.headers, <<99, 111, 110, 116, 101, 110, 116, 45, 116, 121, 112, 101>>), <<116, 101, 120, 116, 47, 104, 116, 109, 108>>)  \* "content-type" , "text/html"
  /\ Answer.status = 301
  /\ Answer.body = upstream.body
  /\ Len(outbound) = 1

=============================================================================
